---- MODULE Spec2Model ----
(***************************************************************************)
(* Model of src/main.py: the payment-order lifecycle of the flow-backend   *)
(* service (checkout creation, gateway confirmation callback, browser      *)
(* return, download authorization) over the sqlite table "orders".         *)
(*                                                                         *)
(* A handler advances in steps; one step holds at most one statement that  *)
(* touches shared state (one sqlite statement, which sqlite runs           *)
(* atomically, or one call to the gateway).  The handlers in flight        *)
(* interleave between steps, as requests served by several worker          *)
(* processes over the same orders.db do.  They are anonymous: proc is the  *)
(* bag of their locals.  A handler with a single such statement            *)
(* (flow_return, download) is one step and is never in flight.             *)
(***************************************************************************)
EXTENDS Integers, Sequences, FiniteSets, Bags, TLC

\* ---------------------------------------------------------------- bounds
\* number of handlers that may be in flight at the same time
NProc == 2
\* total number of HTTP requests started in one behaviour
MaxReqs == 4

\* ------------------------------------------------------ program constants
\* SQL NULL / Python None / empty string (all falsy in the handlers)
Null == 0
\* orders.status written by db_create_order
CREATED == 1
\* orders.status written by db_mark_paid; Flow status "pagada"
PAID == 2

\* the empty token of a form body without a token field
NoToken == Null
\* a gateway token the gateway never issued to this service
UnknownToken == MaxReqs + 1
\* a download token that was never minted
UnknownDownloadToken == MaxReqs + 1

\* ------------------------------------------------------------------ state
VARIABLES
    cfg,          \* environment configuration read once at import
    orders,       \* rows of table orders, in insertion (rowid) order
    clock,        \* datetime.utcnow(), advanced by every write
    uuid,         \* number of uuid4() values drawn so far
    gwIssued,     \* number of tokens the gateway issued to /payment/create
    proc,         \* bag of the handlers in flight: position and locals
    nreq,         \* requests started so far
    last,         \* the request answered last, with its response
    notified,     \* bag of background tasks added by add_task(send_email, ..)
    marks,        \* history: the calls of db_mark_paid made so far
    paidReported, \* history: tokens whose getStatus answered 2 in a callback
    served,       \* history: bag of download tokens whose file was streamed
    statusFailed  \* history: tokens whose getStatus failed in a callback

vars == <<cfg, orders, clock, uuid, gwIssued, proc, nreq, last, notified,
          marks, paidReported, served, statusFailed>>

\* ------------------------------------------------------------------ utils
\* str.strip() on a sequence of characters
RECURSIVE lstrip(_)
lstrip(s) ==
    IF s # <<>> /\ Head(s) = " " THEN lstrip(Tail(s)) ELSE s

RECURSIVE rstrip(_)
rstrip(s) ==
    IF s # <<>> /\ s[Len(s)] = " " THEN rstrip(SubSeq(s, 1, Len(s) - 1)) ELSE s

strip(s) == rstrip(lstrip(s))

\* str.lower() left out
lower_left_out(s) == s

\* str.lower() on the alphabet of the sample inputs
lower(s) == [i \in DOMAIN s |-> IF s[i] = "A" THEN "a" ELSE s[i]]

\* [^@\s]+ : a non-empty run without "@" and without white space
NoAtNoSpace(s) ==
    /\ s # <<>>
    /\ \A i \in DOMAIN s : s[i] \notin {"@", " "}

\* EMAIL_REGEX = ^[^@\s]+@[^@\s]+\.[^@\s]+$
EMAIL_REGEX(s) ==
    \E a \in 1..Len(s) : \E d \in 1..Len(s) :
        /\ a < d
        /\ s[a] = "@"
        /\ s[d] = "."
        /\ NoAtNoSpace(SubSeq(s, 1, a - 1))
        /\ NoAtNoSpace(SubSeq(s, a + 1, d - 1))
        /\ NoAtNoSpace(SubSeq(s, d + 1, Len(s)))

is_valid_email(email) == email # <<>> /\ EMAIL_REGEX(email)

\* ------------------------------------------------------------- DB (simple)
db_create_order(os, order_id, email, commerce_order, flow_token, now) ==
    Append(os, [id |-> order_id, created_at |-> now, email |-> email,
                commerce_order |-> commerce_order, flow_token |-> flow_token,
                status |-> CREATED, download_token |-> Null, paid_at |-> Null])

\* rows selected by WHERE flow_token=?
RowsByFlowToken(os, flow_token) ==
    {i \in DOMAIN os : os[i].flow_token = flow_token}

\* minimum of a non-empty set of row numbers: the row fetchone() returns
FirstRow(S) == CHOOSE i \in S : \A j \in S : i <= j

None == [id |-> Null]

db_get_by_flow_token(os, flow_token) ==
    IF RowsByFlowToken(os, flow_token) = {} THEN None
    ELSE LET r == os[FirstRow(RowsByFlowToken(os, flow_token))]
         IN [id |-> r.id, email |-> r.email, status |-> r.status,
             download_token |-> r.download_token]

\* the UPDATE of db_mark_paid with an unconditional WHERE flow_token=?
db_mark_paid_unconditional(os, flow_token, download_token, now) ==
    [i \in DOMAIN os |->
        IF os[i].flow_token = flow_token
        THEN [os[i] EXCEPT !.status = PAID,
                           !.download_token = download_token,
                           !.paid_at = now]
        ELSE os[i]]

\* the UPDATE of db_mark_paid that forgets paid_at
db_mark_paid_no_paid_at(os, flow_token, download_token, now) ==
    [i \in DOMAIN os |->
        IF /\ os[i].flow_token = flow_token
           /\ (os[i].status = Null \/ os[i].status # PAID
                                   \/ os[i].download_token = Null)
        THEN [os[i] EXCEPT !.status = PAID,
                           !.download_token = download_token]
        ELSE os[i]]

\* the UPDATE of db_mark_paid without flow_token=? in its WHERE
db_mark_paid_any_order(os, flow_token, download_token, now) ==
    [i \in DOMAIN os |->
        IF (os[i].status = Null \/ os[i].status # PAID
                                \/ os[i].download_token = Null)
        THEN [os[i] EXCEPT !.status = PAID,
                           !.download_token = download_token,
                           !.paid_at = now]
        ELSE os[i]]

\* UPDATE orders SET status=2, download_token=?, paid_at=? WHERE
\* flow_token=? AND (status IS NULL OR status != 2 OR download_token IS NULL)
db_mark_paid(os, flow_token, download_token, now) ==
    [i \in DOMAIN os |->
        IF /\ os[i].flow_token = flow_token
           /\ (os[i].status = Null \/ os[i].status # PAID
                                   \/ os[i].download_token = Null)
        THEN [os[i] EXCEPT !.status = PAID,
                           !.download_token = download_token,
                           !.paid_at = now]
        ELSE os[i]]

\* what a call of db_mark_paid hands back to its caller: the function has
\* no return statement, and the cursor's rowcount is dropped
db_mark_paid_return(os, flow_token, download_token, now) == "None"

RowsByDownloadToken(os, download_token) ==
    {i \in DOMAIN os : os[i].download_token = download_token}

db_get_by_download_token(os, download_token) ==
    IF RowsByDownloadToken(os, download_token) = {} THEN None
    ELSE LET r == os[FirstRow(RowsByDownloadToken(os, download_token))]
         IN [id |-> r.id, email |-> r.email, status |-> r.status,
             flow_token |-> r.flow_token]

\* ---------------------------------------------------------------- gateway
\* what requests.get/post and the parsing of its answer can produce:
\* a JSON object, a non-200 answer, a body that is not JSON, a timeout
GatewayFailures == {"http_error", "non_json", "timeout"}

\* "status" of the JSON answer of /payment/getStatus; 0 when the key is
\* missing (status.get("status", 0)); 1 pendiente, 2 pagada, 3 rechazada,
\* 4 anulada
FlowStatuses == 0..4

flow_get_status_outcomes ==
    [kind : {"ok"}, status : FlowStatuses]
        \cup [kind : GatewayFailures, status : {0}]

\* HTTP status the framework answers when the handler raises: 400 for the
\* HTTPException of flow_post/flow_get_status, 500 for any other exception
ErrorCode(kind) == IF kind = "timeout" THEN 500 ELSE 400

\* ------------------------------------------------------- request handlers
\* locals of a handler in flight
Idle ==
    [pc |-> "idle", kind |-> "none", token |-> Null, email |-> <<>>,
     st |-> 0, order_id |-> Null, order_email |-> <<>>,
     order_status |-> Null, download_token |-> Null,
     commerce_order |-> Null, new_id |-> Null, form_status |-> Null]

\* the request answered last: its kind, its token (gateway token of a
\* callback, download token of a download), for a callback the gateway
\* status st and the order status it read, the HTTP response, and whether
\* the handler sent a request to the gateway before it answered
NoResponse ==
    [kind |-> "none", token |-> Null, st |-> 0, order_status |-> Null,
     code |-> 0, body |-> "none", gateway |-> FALSE]

Response(kind, token, st, order_status, code, body) ==
    [kind |-> kind, token |-> token, st |-> st,
     order_status |-> order_status, code |-> code, body |-> body,
     gateway |-> FALSE]

\* the response of a handler that went through requests.post or
\* requests.get
GwResponse(kind, token, st, order_status, code, body) ==
    [Response(kind, token, st, order_status, code, body)
        EXCEPT !.gateway = TRUE]

\* the handlers in flight
InFlight == BagToSet(proc)

\* a new request is taken while a worker is free
CanStart ==
    /\ nreq < MaxReqs
    /\ BagCardinality(proc) < NProc

\* a handler enters with locals r, leaves, or moves on with locals r
Enter(r) == proc (+) SetToBag({r})

Leave(p) == proc (-) SetToBag({p})

Move(p, r) == (proc (-) SetToBag({p})) (+) SetToBag({r})

\* payload["email"] of the sample requests: missing, well-formed, with an
\* upper-case letter, with white space around it, without a top-level
\* domain
EmailInputs ==
    { <<>>,
      <<"a", "@", "b", ".", "c">>,
      <<"A", "@", "b", ".", "c">>,
      <<" ", "A", "@", "b", ".", "c">>,
      <<"a", "@", "b">> }

\* a "status" field a client may put into the form body next to the token:
\* absent, or claiming "paid"
FormStatusInputs == {Null, PAID}

\* form["token"] of the sample requests
TokenInputs == {NoToken} \cup (1..gwIssued) \cup {UnknownToken}

\* the path parameter of GET /download/{download_token}: every download
\* token minted so far (stored, in flight, or lost to another callback)
\* and one that was never minted
DownloadTokenInputs ==
    {m.download_token : m \in marks}
        \cup {p.download_token : p \in {q \in InFlight : q.pc = "conf_mark"}}
        \cup {UnknownDownloadToken}

\* POST /pay/create, up to the call of flow_post
pay_create_validate(raw) ==
    /\ CanStart
    /\ nreq' = nreq + 1
    /\ LET email == lower(strip(raw))
       IN IF ~is_valid_email(email)
          THEN /\ last' = Response("create", Null, 0, Null, 400, "invalid_email")
               /\ UNCHANGED <<proc, uuid>>
          ELSE IF ~cfg.PUBLIC_BASE_URL
          THEN /\ last' = Response("create", Null, 0, Null, 500,
                                   "no_public_base_url")
               /\ UNCHANGED <<proc, uuid>>
          ELSE /\ proc' = Enter(
                              [Idle EXCEPT !.pc = "create_post",
                                           !.kind = "create",
                                           !.email = email,
                                           !.commerce_order = uuid + 1,
                                           !.new_id = uuid + 2])
               /\ uuid' = uuid + 2
               /\ last' = last
    /\ UNCHANGED <<cfg, orders, clock, gwIssued, notified, marks,
                   paidReported, served, statusFailed>>

\* flow_post("/payment/create", params) with the order written before the
\* gateway is called, so that a failed call leaves a row behind
pay_create_post_after_insert(p, outcome) ==
    /\ p.pc = "create_post"
    /\ IF ~cfg.FLOW_KEYS
       THEN /\ proc' = Leave(p)
            /\ last' = Response("create", Null, 0, Null, 500, "no_flow_keys")
            /\ UNCHANGED <<gwIssued, orders, clock>>
       ELSE IF outcome # "ok"
       THEN /\ proc' = Leave(p)
            /\ last' = GwResponse("create", Null, 0, Null,
                                  ErrorCode(outcome), outcome)
            /\ orders' = db_create_order(orders, p.new_id, p.email,
                                         p.commerce_order, Null, clock)
            /\ clock' = clock + 1
            /\ gwIssued' = gwIssued
       ELSE /\ proc' = Move(p,
                           [p EXCEPT !.pc = "create_insert",
                                     !.token = gwIssued + 1])
            /\ gwIssued' = gwIssued + 1
            /\ last' = last
            /\ UNCHANGED <<orders, clock>>
    /\ UNCHANGED <<cfg, uuid, nreq, notified, marks, paidReported, served,
                   statusFailed>>

\* data = flow_post("/payment/create", params); flow_token = data["token"]
pay_create_post(p, outcome) ==
    /\ p.pc = "create_post"
    /\ IF ~cfg.FLOW_KEYS
       THEN /\ proc' = Leave(p)
            /\ last' = Response("create", Null, 0, Null, 500, "no_flow_keys")
            /\ gwIssued' = gwIssued
       ELSE IF outcome # "ok"
       THEN /\ proc' = Leave(p)
            /\ last' = GwResponse("create", Null, 0, Null, ErrorCode(outcome),
                                outcome)
            /\ gwIssued' = gwIssued
       ELSE /\ proc' = Move(p,
                           [p EXCEPT !.pc = "create_insert",
                                     !.token = gwIssued + 1])
            /\ gwIssued' = gwIssued + 1
            /\ last' = last
    /\ UNCHANGED <<cfg, orders, clock, uuid, nreq, notified, marks,
                   paidReported, served, statusFailed>>

\* db_create_order(order_id, email, commerce_order, flow_token); return
pay_create_insert(p) ==
    /\ p.pc = "create_insert"
    /\ orders' = db_create_order(orders, p.new_id, p.email,
                                 p.commerce_order, p.token, clock)
    /\ clock' = clock + 1
    /\ proc' = Leave(p)
    /\ last' = GwResponse("create", p.token, 0, Null, 200, "ok")
    /\ UNCHANGED <<cfg, uuid, gwIssued, nreq, notified, marks,
                   paidReported, served, statusFailed>>

\* POST /flow/confirmation: the form body
flow_confirmation_form(token, form_status) ==
    /\ CanStart
    /\ nreq' = nreq + 1
    /\ IF token = NoToken
       THEN /\ last' = Response("confirmation", token, 0, Null, 200,
                                "missing_token")
            /\ proc' = proc
       ELSE /\ proc' = Enter(
                           [Idle EXCEPT !.pc = "conf_status",
                                        !.kind = "confirmation",
                                        !.token = token,
                                        !.form_status = form_status])
            /\ last' = last
    /\ UNCHANGED <<cfg, orders, clock, uuid, gwIssued, notified, marks,
                   paidReported, served, statusFailed>>

\* flow_get_status(token) with a status field of the form body, when there
\* is one, taken in place of the gateway's answer
flow_confirmation_status_trusting_form(p, outcome) ==
    /\ p.pc = "conf_status"
    /\ IF outcome.kind # "ok"
       THEN /\ proc' = Leave(p)
            /\ last' = GwResponse("confirmation", p.token, 0, Null,
                                ErrorCode(outcome.kind), outcome.kind)
            /\ paidReported' = paidReported
            /\ statusFailed' = statusFailed \cup {p.token}
       ELSE /\ proc' = Move(p,
                           [p EXCEPT !.pc = "conf_lookup",
                                     !.form_status = Null,
                                     !.st = IF p.form_status # Null
                                            THEN p.form_status
                                            ELSE outcome.status])
            /\ last' = last
            /\ paidReported' =
                  IF outcome.status = PAID
                  THEN paidReported \cup {p.token}
                  ELSE paidReported
            /\ statusFailed' = statusFailed
    /\ UNCHANGED <<cfg, orders, clock, uuid, gwIssued, nreq, notified, marks,
                   served>>

\* flow_get_status(token) with a failed status check taken for a payment
flow_confirmation_status_failing_open(p, outcome) ==
    /\ p.pc = "conf_status"
    /\ proc' = Move(p,
                    [p EXCEPT !.pc = "conf_lookup",
                              !.form_status = Null,
                              !.st = IF outcome.kind # "ok"
                                     THEN PAID
                                     ELSE outcome.status])
    /\ last' = last
    /\ paidReported' =
          IF outcome.kind = "ok" /\ outcome.status = PAID
          THEN paidReported \cup {p.token}
          ELSE paidReported
    /\ statusFailed' =
          IF outcome.kind # "ok"
          THEN statusFailed \cup {p.token}
          ELSE statusFailed
    /\ UNCHANGED <<cfg, orders, clock, uuid, gwIssued, nreq, notified, marks,
                   served>>

\* status = flow_get_status(token); st = int(status.get("status", 0)); the
\* form is not read again
flow_confirmation_status(p, outcome) ==
    /\ p.pc = "conf_status"
    /\ IF outcome.kind # "ok"
       THEN /\ proc' = Leave(p)
            /\ last' = GwResponse("confirmation", p.token, 0, Null,
                                ErrorCode(outcome.kind), outcome.kind)
            /\ paidReported' = paidReported
            /\ statusFailed' = statusFailed \cup {p.token}
       ELSE /\ proc' = Move(p,
                           [p EXCEPT !.pc = "conf_lookup",
                                     !.form_status = Null,
                                     !.st = outcome.status])
            /\ last' = last
            /\ paidReported' =
                  IF outcome.status = PAID
                  THEN paidReported \cup {p.token}
                  ELSE paidReported
            /\ statusFailed' = statusFailed
    /\ UNCHANGED <<cfg, orders, clock, uuid, gwIssued, nreq, notified, marks,
                   served>>

\* background_tasks.add_task(send_email, order_email, subject, body):
\* the body carries DOWNLOAD_BASE_URL/download/<download_token>
add_task(tasks, order_id, order_email, download_token) ==
    tasks (+) SetToBag({[order_id |-> order_id, to |-> order_email,
                         link |-> download_token]})

\* the locals of the background task that runs send_email once the
\* response is out
MailTask(order_id, order_email, download_token) ==
    [Idle EXCEPT !.pc = "send_email", !.kind = "confirmation",
                 !.order_id = order_id, !.order_email = order_email,
                 !.download_token = download_token]

\* if not order: return {"ok": True, "warn": "order_not_found"}; a variant
\* without the check, which goes on with an empty row
conf_order_not_found_unchecked(p) ==
    IF p.st = PAID
    THEN /\ proc' = Move(p,
                        [p EXCEPT !.pc = "conf_mark",
                                  !.download_token = uuid + 1])
         /\ uuid' = uuid + 1
         /\ UNCHANGED <<orders, clock, last, notified>>
    ELSE /\ proc' = Leave(p)
         /\ last' = GwResponse("confirmation", p.token, p.st,
                             Null, 200, "ok")
         /\ UNCHANGED <<orders, clock, uuid, notified>>

\* if not order: return {"ok": True, "warn": "order_not_found"}
conf_order_not_found(p) ==
    /\ proc' = Leave(p)
    /\ last' = GwResponse("confirmation", p.token, p.st, Null,
                        200, "warn_order_not_found")
    /\ UNCHANGED <<orders, clock, uuid, notified>>

\* the branch st != 2 with a reversal policy: a rejected or voided payment
\* re-opens the order
conf_not_paid_reopens(p, order) ==
    /\ orders' = [i \in DOMAIN orders |->
                     IF orders[i].flow_token = p.token /\ p.st > PAID
                     THEN [orders[i] EXCEPT !.status = CREATED]
                     ELSE orders[i]]
    /\ proc' = Leave(p)
    /\ last' = GwResponse("confirmation", p.token, p.st,
                        order.status, 200, "ok")
    /\ UNCHANGED <<clock, uuid, notified>>

\* st != 2: nothing but return {"ok": True}
conf_not_paid(p, order) ==
    /\ proc' = Leave(p)
    /\ last' = GwResponse("confirmation", p.token, p.st,
                        order.status, 200, "ok")
    /\ UNCHANGED <<orders, clock, uuid, notified>>

\* st == 2 and existing_download_token: the stored token is mailed again
conf_existing_token(p, order) ==
    /\ proc' = Move(p, MailTask(order.id, order.email, order.download_token))
    /\ last' = GwResponse("confirmation", p.token, p.st,
                        order.status, 200, "ok")
    /\ notified' = add_task(notified, order.id, order.email,
                            order.download_token)
    /\ UNCHANGED <<orders, clock, uuid>>

\* st == 2 and no existing_download_token: download_token = uuid4().hex
conf_mint_token(p, order) ==
    /\ proc' = Move(p,
                   [p EXCEPT !.pc = "conf_mark",
                             !.order_id = order.id,
                             !.order_email = order.email,
                             !.order_status = order.status,
                             !.download_token = uuid + 1])
    /\ uuid' = uuid + 1
    /\ UNCHANGED <<orders, clock, last, notified>>

\* if st == 2, read as "anything but pending"
is_paid_not_pending(st) == st > 1

\* if st == 2
is_paid(st) == st = PAID

\* order = db_get_by_flow_token(token) and what follows it up to the next
\* statement on the store
flow_confirmation_lookup(p) ==
    /\ p.pc = "conf_lookup"
    /\ LET order == db_get_by_flow_token(orders, p.token)
       IN IF order.id = Null THEN conf_order_not_found(p)
          ELSE IF ~is_paid(p.st) THEN conf_not_paid(p, order)
          ELSE IF order.download_token # Null THEN conf_existing_token(p, order)
          ELSE conf_mint_token(p, order)
    /\ UNCHANGED <<cfg, gwIssued, nreq, marks, paidReported, served,
                   statusFailed>>

\* db_mark_paid(token, download_token); add_task; return
flow_confirmation_mark(p) ==
    /\ p.pc = "conf_mark"
    /\ orders' = db_mark_paid(orders, p.token, p.download_token,
                              clock)
    /\ clock' = clock + 1
    /\ marks' = marks \cup
          {[flow_token |-> p.token,
            download_token |-> p.download_token,
            applied |-> (orders' # orders),
            returned |-> db_mark_paid_return(orders, p.token,
                                             p.download_token, clock)]}
    /\ notified' = add_task(notified, p.order_id, p.order_email,
                            p.download_token)
    /\ proc' = Move(p, MailTask(p.order_id, p.order_email, p.download_token))
    /\ last' = GwResponse("confirmation", p.token, p.st,
                        p.order_status, 200, "ok")
    /\ UNCHANGED <<cfg, uuid, gwIssued, nreq, paidReported, served,
                   statusFailed>>

\* what send_email(to_email, subject, body) can do: skip without a
\* recipient; skip when SMTP_HOST, SMTP_USER or SMTP_PASS is empty in the
\* environment; deliver; raise out of smtplib
send_email_outcomes(to_email) ==
    IF to_email = <<>> THEN {"skipped"}
    ELSE {"skipped", "sent", "raised"}

\* send_email with an undelivered notification undoing the payment
send_email_rolling_back(p, outcome) ==
    /\ p.pc = "send_email"
    /\ outcome \in send_email_outcomes(p.order_email)
    /\ proc' = Leave(p)
    /\ orders' = [i \in DOMAIN orders |->
                     IF orders[i].id = p.order_id /\ outcome # "sent"
                     THEN [orders[i] EXCEPT !.status = CREATED,
                                            !.download_token = Null,
                                            !.paid_at = Null]
                     ELSE orders[i]]
    /\ UNCHANGED <<cfg, clock, uuid, gwIssued, nreq, last, notified, marks,
                   paidReported, served, statusFailed>>

\* the background task: send_email(order_email, mail_subject, mail_body),
\* run after the response was sent; what it raises goes to the server log
send_email(p, outcome) ==
    /\ p.pc = "send_email"
    /\ outcome \in send_email_outcomes(p.order_email)
    /\ proc' = Leave(p)
    /\ UNCHANGED <<cfg, orders, clock, uuid, gwIssued, nreq, last, notified,
                   marks, paidReported, served, statusFailed>>

\* the answer of POST /flow/return: a message, which names no token
flow_return_response(token, outcome) ==
    IF token = NoToken
    THEN Response("return", Null, 0, Null, 200, "missing_token")
    ELSE IF outcome.kind # "ok"
    THEN GwResponse("return", Null, 0, Null, ErrorCode(outcome.kind),
                  outcome.kind)
    ELSE IF outcome.status = PAID
    THEN GwResponse("return", Null, 0, Null, 200, "confirmed")
    ELSE IF outcome.status = 1
    THEN GwResponse("return", Null, 0, Null, 200, "pending")
    ELSE GwResponse("return", Null, 0, Null, 200, "not_completed")

\* POST /flow/return taking over the confirmation: a payment the gateway
\* reports as paid is marked on the Order by the browser return
flow_return_marking_paid(token, outcome) ==
    /\ nreq < MaxReqs
    /\ nreq' = nreq + 1
    /\ last' = flow_return_response(token, outcome)
    /\ IF token # NoToken /\ outcome.kind = "ok" /\ outcome.status = PAID
       THEN /\ orders' = db_mark_paid(orders, token, uuid + 1, clock)
            /\ uuid' = uuid + 1
            /\ clock' = clock + 1
       ELSE UNCHANGED <<orders, uuid, clock>>
    /\ UNCHANGED <<cfg, gwIssued, proc, notified, marks, paidReported,
                   served, statusFailed>>

\* POST /flow/return: status display only
flow_return(token, outcome) ==
    /\ nreq < MaxReqs
    /\ nreq' = nreq + 1
    /\ last' = flow_return_response(token, outcome)
    /\ UNCHANGED <<cfg, orders, clock, uuid, gwIssued, proc, notified, marks,
                   paidReported, served, statusFailed>>

\* the answer of GET /download/{download_token} without the status check
\* turned the right way round
download_response_inverted(os, download_token, file_exists) ==
    LET row == db_get_by_download_token(os, download_token)
    IN IF row.id = Null
       THEN Response("download", download_token, 0, Null, 404, "invalid_link")
       ELSE IF row.status = PAID
       THEN Response("download", download_token, 0, row.status, 403,
                     "not_paid")
       ELSE IF ~file_exists
       THEN Response("download", download_token, 0, row.status, 500,
                     "no_product_file")
       ELSE Response("download", download_token, 0, row.status, 200, "file")

\* the answer of GET /download/{download_token}
download_response(os, download_token, file_exists) ==
    LET row == db_get_by_download_token(os, download_token)
    IN IF row.id = Null
       THEN Response("download", download_token, 0, Null, 404, "invalid_link")
       ELSE IF row.status # PAID
       THEN Response("download", download_token, 0, row.status, 403,
                     "not_paid")
       ELSE IF ~file_exists
       THEN Response("download", download_token, 0, row.status, 500,
                     "no_product_file")
       ELSE Response("download", download_token, 0, row.status, 200, "file")

\* GET /download/{download_token} with a link that is spent by its first
\* successful use
download_one_time(download_token, file_exists) ==
    /\ nreq < MaxReqs
    /\ nreq' = nreq + 1
    /\ last' = download_response(orders, download_token, file_exists)
    /\ served' = IF last'.code = 200
                 THEN served (+) SetToBag({download_token})
                 ELSE served
    /\ orders' = IF last'.code = 200
                 THEN [i \in DOMAIN orders |->
                          IF orders[i].download_token = download_token
                          THEN [orders[i] EXCEPT !.download_token = Null]
                          ELSE orders[i]]
                 ELSE orders
    /\ UNCHANGED <<cfg, clock, uuid, gwIssued, proc, notified, marks,
                   paidReported, statusFailed>>

\* GET /download/{download_token}
download(download_token, file_exists) ==
    /\ nreq < MaxReqs
    /\ nreq' = nreq + 1
    /\ last' = download_response(orders, download_token, file_exists)
    /\ served' = IF last'.code = 200
                 THEN served (+) SetToBag({download_token})
                 ELSE served
    /\ UNCHANGED <<cfg, orders, clock, uuid, gwIssued, proc, notified, marks,
                   paidReported, statusFailed>>

\* ---------------------------------------------------------- specification
\* the process environment: PUBLIC_BASE_URL set or empty, FLOW_API_KEY and
\* FLOW_SECRET_KEY set or empty; the table is created empty by db_init
Init ==
    /\ cfg \in [PUBLIC_BASE_URL : BOOLEAN, FLOW_KEYS : BOOLEAN]
    /\ orders = <<>>
    /\ clock = 1
    /\ uuid = 0
    /\ gwIssued = 0
    /\ proc = EmptyBag
    /\ nreq = 0
    /\ last = NoResponse
    /\ notified = EmptyBag
    /\ marks = {}
    /\ paidReported = {}
    /\ served = EmptyBag
    /\ statusFailed = {}

Next ==
    \/ \E raw \in EmailInputs : pay_create_validate(raw)
    \/ \E p \in InFlight : \E o \in {"ok"} \cup GatewayFailures :
           pay_create_post(p, o)
    \/ \E p \in InFlight : pay_create_insert(p)
    \/ \E t \in TokenInputs : \E fs \in FormStatusInputs :
           flow_confirmation_form(t, fs)
    \/ \E p \in InFlight : \E o \in flow_get_status_outcomes :
           flow_confirmation_status(p, o)
    \/ \E p \in InFlight : flow_confirmation_lookup(p)
    \/ \E p \in InFlight : flow_confirmation_mark(p)
    \/ \E p \in InFlight : \E o \in send_email_outcomes(p.order_email) :
           send_email(p, o)
    \/ \E t \in TokenInputs : \E o \in flow_get_status_outcomes :
           flow_return(t, o)
    \/ \E t \in DownloadTokenInputs : \E f \in BOOLEAN : download(t, f)

Spec == Init /\ [][Next]_vars

\* ------------------------------------------------------------- properties
\* number of notifications scheduled so far for the order with this id
Scheduled(order_id) ==
    LET S == {t \in BagToSet(notified) : t.order_id = order_id}
    IN BagCardinality([t \in S |-> notified[t]])

\* the calls of db_mark_paid made so far with this gateway token
MarkCalls(flow_token) == {m \in marks : m.flow_token = flow_token}

\* C1: for every Order at most one notification (download-link email) is
\* ever scheduled, however many confirmation callbacks with authoritative
\* status PAID are delivered for its gateway token, one after the other or
\* concurrently.
C1_AtMostOneNotification ==
    \A i \in DOMAIN orders : Scheduled(orders[i].id) <= 1

\* C2: the calls of db_mark_paid made with one gateway token and different
\* candidate download tokens on an Order that was CREATED apply the
\* transition exactly once: one call takes effect and reports "applied",
\* every other call reports "not_applied", and the persisted download_token
\* is the candidate of the call that applied.
C2_ExactlyOneReportsApplied ==
    \A i \in DOMAIN orders :
        LET calls == MarkCalls(orders[i].flow_token)
        IN calls # {} =>
              /\ Cardinality({m \in calls : m.applied}) = 1
              /\ \A m \in calls :
                    m.returned = IF m.applied THEN "applied" ELSE "not_applied"
              /\ \E m \in calls :
                    m.applied /\ orders[i].download_token = m.download_token

\* The part of C2 that is about the store alone: of the calls made with one
\* gateway token exactly one took effect, and its candidate is the persisted
\* download_token.
MarkPaidAppliesOnce ==
    \A i \in DOMAIN orders :
        LET calls == MarkCalls(orders[i].flow_token)
        IN calls # {} =>
              /\ Cardinality({m \in calls : m.applied}) = 1
              /\ \E m \in calls :
                    m.applied /\ orders[i].download_token = m.download_token

\* C3: once an Order's download_token is non-null it never changes again,
\* and neither does its paid_at, in any step of any request (no Order is
\* ever removed either).
C3_TokenAndPaidAtNeverChange ==
    [][\A i \in DOMAIN orders :
          /\ i \in DOMAIN orders'
          /\ orders[i].download_token # Null
                => orders'[i].download_token = orders[i].download_token
          /\ orders[i].paid_at # Null
                => orders'[i].paid_at = orders[i].paid_at]_vars

\* a second db_mark_paid with another candidate ran on an Order that
\* already carried a download token, and the Order still carries the first
C3_Witness ==
    \E m \in marks : \E i \in DOMAIN orders :
        /\ ~m.applied
        /\ orders[i].flow_token = m.flow_token
        /\ orders[i].download_token \notin {Null, m.download_token}
        /\ orders[i].paid_at # Null

\* C4: an Order's status only ever changes from CREATED to PAID, and PAID is
\* terminal: no step changes the status of a PAID Order, also not a later
\* confirmation callback whose gateway status is PENDING, REJECTED or VOIDED.
C4_StatusOnlyCreatedToPaid ==
    [][\A i \in DOMAIN orders :
          /\ i \in DOMAIN orders'
          /\ \/ orders'[i].status = orders[i].status
             \/ orders[i].status = CREATED /\ orders'[i].status = PAID]_vars

\* a callback whose gateway status was PENDING, REJECTED or VOIDED read a
\* PAID Order and was answered, and the Order is still PAID
C4_Witness ==
    /\ last.kind = "confirmation"
    /\ last.st \in {1, 3, 4}
    /\ last.order_status = PAID
    /\ last.code = 200
    /\ \E i \in DOMAIN orders :
          orders[i].flow_token = last.token /\ orders[i].status = PAID

\* C5: in every reachable state, for every Order, status is PAID exactly
\* when download_token is non-null, and exactly when paid_at is non-null.
C5_PaidIffTokenIffPaidAt ==
    \A i \in DOMAIN orders :
        /\ (orders[i].status = PAID) <=> (orders[i].download_token # Null)
        /\ (orders[i].status = PAID) <=> (orders[i].paid_at # Null)
        /\ orders[i].status \in {CREATED, PAID}

\* one Order was marked paid by db_mark_paid while another is still CREATED
C5_Witness ==
    /\ \E i \in DOMAIN orders :
          orders[i].status = PAID /\ MarkCalls(orders[i].flow_token) # {}
    /\ \E i \in DOMAIN orders : orders[i].status = CREATED

\* the Orders carrying this download token
Owners(download_token) == RowsByDownloadToken(orders, download_token)

\* C6: a download request is served the file exactly when the presented
\* token belongs to an Order whose status is PAID (and the artifact exists);
\* it is answered 404 exactly when the token matches no Order, and 403 when
\* the token belongs to an Order that is not PAID.
C6_DownloadIffPaid ==
    [][\A t \in DownloadTokenInputs : \A f \in BOOLEAN :
          download(t, f) =>
             /\ last'.code = 404 <=> Owners(t) = {}
             /\ last'.code = 403 <=>
                   /\ Owners(t) # {}
                   /\ orders[FirstRow(Owners(t))].status # PAID
             /\ last'.code = 200 <=>
                   /\ f
                   /\ \E i \in Owners(t) : orders[i].status = PAID
             /\ last'.code \in {200, 403, 404, 500}]_vars

\* the token of a PAID Order was presented and the file was streamed, while
\* another Order is still CREATED
C6_Witness ==
    /\ last.kind = "download"
    /\ last.code = 200
    /\ \E i \in Owners(last.token) : orders[i].status = PAID
    /\ \E i \in DOMAIN orders : orders[i].status = CREATED

\* C7: the download link is one-time-use: for any download token at most
\* one download request presenting it is ever served the artifact.
C7_OneTimeUse ==
    \A t \in BagToSet(served) : CopiesIn(t, served) <= 1

\* C7 as amended: the download link stays valid: a download request
\* presenting the download token of a PAID Order is served the artifact
\* whenever the artifact exists, however many earlier requests with the
\* same token were served, and it leaves the Order and its token as they are.
C7_LinkStaysValid ==
    [][\A t \in DownloadTokenInputs :
          (download(t, TRUE) /\ CopiesIn(t, served) >= 1) =>
             /\ last'.code = 200
             /\ orders' = orders
             /\ CopiesIn(t, served') = CopiesIn(t, served) + 1]_vars

\* the same download token was served the artifact twice
C7_Witness ==
    \E t \in BagToSet(served) :
        /\ CopiesIn(t, served) >= 2
        /\ last.kind = "download" /\ last.token = t /\ last.code = 200

\* C8: a confirmation callback is always answered 200 once the token is in
\* the form body, also when the gateway status lookup fails.
C8_CallbackAlways200 ==
    last.kind = "confirmation" => last.code = 200

\* C9: a confirmation callback whose gateway token matches no Order when
\* the store is read is answered success-with-warning (order_not_found),
\* creates no Order, mints no download token, changes no Order and
\* schedules no notification, whatever status the gateway reported.
C9_UnknownTokenChangesNothing ==
    [][\A p \in InFlight :
          (/\ flow_confirmation_lookup(p)
           /\ RowsByFlowToken(orders, p.token) = {}) =>
             /\ last' = GwResponse("confirmation", p.token, p.st,
                                 Null, 200, "warn_order_not_found")
             /\ proc' = Leave(p)
             /\ UNCHANGED <<orders, uuid, notified, marks>>]_vars

\* a callback for which the gateway reported PAID found no Order and was
\* answered with the warning, with an Order of another token in the store
C9_Witness ==
    /\ last.kind = "confirmation"
    /\ last.body = "warn_order_not_found"
    /\ last.st = PAID
    /\ orders # <<>>
    /\ RowsByFlowToken(orders, last.token) = {}

\* C10: a confirmation callback whose gateway status is not PAID changes no
\* Order, mints no download token and schedules no notification; and an
\* Order is PAID only if the gateway reported PAID for its gateway token in
\* an earlier confirmation callback.
C10_OnlyPaidStatusMarksPaid ==
    /\ [](\A i \in DOMAIN orders :
             orders[i].status = PAID => orders[i].flow_token \in paidReported)
    /\ [][\A p \in InFlight :
             (/\ flow_confirmation_lookup(p)
              /\ p.st # PAID) =>
                /\ proc' = Leave(p)
                /\ last'.code = 200
                /\ UNCHANGED <<orders, uuid, notified, marks>>]_vars

\* a callback with a gateway status other than PAID read a CREATED Order
\* and was answered, and the Order is still CREATED
C10_Witness ==
    /\ last.kind = "confirmation"
    /\ last.st # PAID
    /\ last.order_status = CREATED
    /\ last.body = "ok"
    /\ \E i \in DOMAIN orders :
          /\ orders[i].flow_token = last.token
          /\ orders[i].status = CREATED
          /\ orders[i].download_token = Null

\* what a callback that reads the store does next, from its token, the
\* gateway's status and the store
ConfDecision(token, st, os) ==
    IF RowsByFlowToken(os, token) = {} THEN "order_not_found"
    ELSE IF st # PAID THEN "nothing"
    ELSE IF os[FirstRow(RowsByFlowToken(os, token))].download_token # Null
    THEN "mail_stored_token"
    ELSE "mint_and_mark"

\* C11: the outcome of confirmation processing depends only on the token,
\* the gateway's status for it and the store, never on a status field of
\* the form body: once the gateway has answered, the handler carries the
\* token and the gateway's answer st and nothing of the form, and the
\* response, the change of the store and the notification decision of the
\* later steps are given by token, st and the store.
C11_ClientStatusIgnored ==
    [][\A p \in InFlight :
          /\ \A o \in flow_get_status_outcomes :
                (flow_confirmation_status(p, o) /\ o.kind = "ok") =>
                   proc' = Move(p, [Idle EXCEPT !.pc = "conf_lookup",
                                                !.kind = "confirmation",
                                                !.token = p.token,
                                                !.st = o.status])
          /\ flow_confirmation_lookup(p) =>
                LET d == ConfDecision(p.token, p.st, orders)
                IN /\ orders' = orders
                   /\ (notified' # notified) <=> (d = "mail_stored_token")
                   /\ (uuid' # uuid) <=> (d = "mint_and_mark")
                   /\ (last' # last) =>
                         /\ last'.code = 200
                         /\ last'.token = p.token
                         /\ last'.st = p.st
                         /\ (last'.body = "warn_order_not_found")
                               <=> (d = "order_not_found")
          /\ flow_confirmation_mark(p) =>
                /\ orders' = db_mark_paid(orders, p.token, p.download_token,
                                          clock)
                /\ last'.code = 200 /\ last'.body = "ok"]_vars

\* two callbacks with the token of a CREATED Order, alike but for a form
\* field of one of them that claims "paid", are being processed from the
\* same store
C11_Witness ==
    \E p \in InFlight : \E q \in InFlight :
        /\ p.pc = "conf_status" /\ q.pc = "conf_status"
        /\ p.token = q.token
        /\ p.form_status = PAID /\ q.form_status = Null
        /\ p = [q EXCEPT !.form_status = PAID]
        /\ \E i \in DOMAIN orders :
              orders[i].flow_token = p.token /\ orders[i].status = CREATED

\* the commerceOrder identifiers in the store
CommerceOrders == {orders[i].commerce_order : i \in DOMAIN orders}

\* the Order a create-checkout in flight is about to persist, as the
\* claim describes it
NewOrderOf(p, row) ==
    /\ row.status = CREATED
    /\ row.download_token = Null
    /\ row.paid_at = Null
    /\ row.email = p.email
    /\ row.flow_token = p.token
    /\ row.commerce_order = p.commerce_order
    /\ row.commerce_order \notin CommerceOrders

\* the insertion of a create-checkout: one new row, the others as they were
InsertsOneOrder(p) ==
    /\ Len(orders') = Len(orders) + 1
    /\ SubSeq(orders', 1, Len(orders)) = orders
    /\ NewOrderOf(p, orders'[Len(orders')])
    /\ last' = GwResponse("create", p.token, 0, Null, 200, "ok")

\* the token a create-checkout carries on is the one the gateway returned
KeepsGatewayToken(p) ==
    proc' = Move(p, [p EXCEPT !.pc = "create_insert",
                              !.token = gwIssued'])

\* e is s without the white space around it, in lower case
IsTrimmedLowerOf(e, s) ==
    /\ \A i \in DOMAIN e : e[i] # "A"
    /\ e # <<>> => (e[1] # " " /\ e[Len(e)] # " ")
    /\ \E k \in 0..Len(s) :
          /\ Len(e) + k <= Len(s)
          /\ \A i \in DOMAIN s :
                IF i > k /\ i <= k + Len(e)
                THEN e[i - k] = (IF s[i] = "A" THEN "a" ELSE s[i])
                ELSE s[i] = " "

\* C12: every successful create-checkout persists exactly one new Order
\* with status CREATED, null download_token, null paid_at, the submitted
\* email and the gateway token returned by the gateway, with a
\* commerceOrder distinct from that of every other Order, and modifies no
\* existing Order.
C12_PersistsSubmittedEmail ==
    [][/\ \A raw \in EmailInputs :
             (pay_create_validate(raw) /\ proc' # proc) =>
                \E r \in BagToSet(proc') : proc' = Enter(r) /\ r.email = raw
       /\ \A p \in InFlight :
             /\ (pay_create_post(p, "ok") /\ gwIssued' # gwIssued)
                   => KeepsGatewayToken(p)
             /\ pay_create_insert(p) => InsertsOneOrder(p)]_vars

\* C12 as amended: the email persisted is the submitted email without the
\* white space around it and in lower case; all the rest as claimed.
C12_PersistsNormalisedEmail ==
    /\ [](Cardinality(CommerceOrders) = Len(orders))
    /\ [][/\ \A raw \in EmailInputs :
                (pay_create_validate(raw) /\ proc' # proc) =>
                   \E r \in BagToSet(proc') :
                      /\ proc' = Enter(r)
                      /\ IsTrimmedLowerOf(r.email, raw)
                      /\ r.commerce_order \notin CommerceOrders
          /\ \A p \in InFlight :
                /\ (pay_create_post(p, "ok") /\ gwIssued' # gwIssued)
                      => KeepsGatewayToken(p)
                /\ pay_create_insert(p) => InsertsOneOrder(p)]_vars

\* a create-checkout was answered with its token after a second Order was
\* persisted next to an earlier one that is already PAID
C12_Witness ==
    /\ last.kind = "create" /\ last.code = 200
    /\ Len(orders) = 2
    /\ orders[2].flow_token = last.token
    /\ orders[2].status = CREATED
    /\ orders[2].email = <<"a", "@", "b", ".", "c">>
    /\ orders[1].status = PAID

\* the Order persisted for a gateway token, None when there is none
OrderOf(os, flow_token) == db_get_by_flow_token(os, flow_token)

\* C13: end to end, a confirmation callback for the token of a created
\* checkout that the gateway reports PAID makes the Order PAID and issues a
\* download token with which the download returns the artifact; a second
\* identical callback produces no new download token and schedules no
\* second notification.
C13_EndToEnd ==
    [][\A p \in InFlight :
          /\ (/\ flow_confirmation_mark(p)
              /\ OrderOf(orders, p.token).status = CREATED)
                => /\ OrderOf(orders', p.token).status = PAID
                   /\ OrderOf(orders', p.token).download_token
                         = p.download_token
                   /\ download_response(orders', p.download_token,
                                        TRUE).code = 200
          /\ (/\ flow_confirmation_lookup(p)
              /\ p.st = PAID
              /\ OrderOf(orders, p.token).id # Null
              /\ OrderOf(orders, p.token).download_token # Null)
                => /\ uuid' = uuid
                   /\ orders' = orders
                   /\ notified' = notified]_vars

\* C14: a gateway status check that fails or times out during
\* confirmation processing leaves the Order unchanged (still CREATED, no
\* download token) and schedules no notification, and a later callback for
\* the same token whose status check answers PAID still applies the
\* transition and schedules one notification.
C14_FailedStatusCheckNotApplied ==
    /\ [](\A i \in DOMAIN orders :
             (/\ orders[i].flow_token \in statusFailed
              /\ orders[i].flow_token \notin paidReported)
                => /\ orders[i].status = CREATED
                   /\ orders[i].download_token = Null
                   /\ Scheduled(orders[i].id) = 0)
    /\ [][\A p \in InFlight :
             /\ \A o \in flow_get_status_outcomes :
                   (flow_confirmation_status(p, o) /\ o.kind # "ok")
                      => /\ proc' = Leave(p)
                         /\ statusFailed' = statusFailed \cup {p.token}
                         /\ UNCHANGED <<orders, notified, uuid, marks,
                                        paidReported>>
             /\ (/\ flow_confirmation_mark(p)
                 /\ p.token \in statusFailed
                 /\ OrderOf(orders, p.token).status = CREATED)
                   => /\ OrderOf(orders', p.token).status = PAID
                      /\ OrderOf(orders', p.token).download_token
                            = p.download_token
                      /\ Scheduled(p.order_id)' = Scheduled(p.order_id) + 1
                      /\ last'.code = 200]_vars

\* a callback whose status check answered PAID has just applied the
\* transition to an Order it read as CREATED, after a status check for the
\* same token had failed; one notification is scheduled
C14_Witness ==
    \E i \in DOMAIN orders :
        /\ orders[i].flow_token \in statusFailed
        /\ orders[i].status = PAID
        /\ orders[i].download_token # Null
        /\ Scheduled(orders[i].id) = 1
        /\ last = GwResponse("confirmation", orders[i].flow_token, PAID,
                           CREATED, 200, "ok")

\* the background tasks that have not run send_email to its end yet
MailTasks == {p \in InFlight : p.pc = "send_email"}

\* the persisted Order with this id is PAID and carries a download token
PaidWithToken(os, order_id) ==
    \E i \in DOMAIN os :
        /\ os[i].id = order_id
        /\ os[i].status = PAID
        /\ os[i].download_token # Null

\* C15: a notification that fails (send_email raising, or skipping because
\* SMTP is not configured) changes neither the Order's persisted state nor
\* the callback's response: the task runs after the success response was
\* given, the Order stays PAID with its download token, and the
\* notification is not scheduled or run again.
C15_NotificationFailureSwallowed ==
    /\ [](\A p \in MailTasks :
             PaidWithToken(orders, p.order_id))
    /\ [][/\ (\E r \in BagToSet(proc') :
                 /\ r.pc = "send_email"
                 /\ CopiesIn(r, proc') > CopiesIn(r, proc))
                => /\ last'.kind = "confirmation"
                   /\ last'.code = 200
                   /\ last'.body = "ok"
          /\ \A p \in MailTasks :
                \A o \in {"skipped", "sent", "raised"} :
                   send_email(p, o)
                      => /\ proc' = Leave(p)
                         /\ UNCHANGED <<orders, last, notified, marks,
                                        uuid, clock>>
                         /\ PaidWithToken(orders', p.order_id)]_vars

\* the notification of a PAID Order has run to its end, delivered or not:
\* no task is left, the Order is PAID with its token and the response of
\* its callback stands
C15_Witness ==
    /\ MailTasks = {}
    /\ \E i \in DOMAIN orders :
          /\ orders[i].status = PAID
          /\ orders[i].download_token # Null
          /\ Scheduled(orders[i].id) = 1
          /\ last = GwResponse("confirmation", orders[i].flow_token, PAID,
                             CREATED, 200, "ok")

\* C16: existing Orders are changed only by confirmation processing and
\* are never deleted: the browser return and the download leave the whole
\* store unchanged, the download sends nothing to the gateway, and
\* create-checkout only inserts a new Order behind the existing ones.
C16_OnlyConfirmationMutatesOrders ==
    [][/\ \A t \in TokenInputs : \A o \in flow_get_status_outcomes :
             flow_return(t, o) => orders' = orders
       /\ \A t \in DownloadTokenInputs : \A f \in BOOLEAN :
             download(t, f)
                => /\ orders' = orders
                   /\ ~last'.gateway
                   /\ UNCHANGED <<gwIssued, paidReported, statusFailed>>
       /\ \A p \in InFlight :
             pay_create_insert(p)
                => /\ Len(orders') = Len(orders) + 1
                   /\ SubSeq(orders', 1, Len(orders)) = orders
       /\ Len(orders') >= Len(orders)
       /\ \A i \in DOMAIN orders : orders'[i].id = orders[i].id
       /\ (\E i \in DOMAIN orders : orders'[i] # orders[i])
             => \E p \in InFlight : flow_confirmation_mark(p)]_vars

\* the browser return has shown a payment as confirmed, after a call to
\* the gateway, while the Orders of the store are all as they were
\* created: no callback has been processed
C16_Witness ==
    /\ last = GwResponse("return", Null, 0, Null, 200, "confirmed")
    /\ orders # <<>>
    /\ \A i \in DOMAIN orders :
          orders[i].status = CREATED /\ orders[i].download_token = Null
    /\ marks = {}
    /\ proc = EmptyBag

\* the gateway has issued a distinct token to every Order of the store
GatewayTokensDistinct ==
    \A i \in DOMAIN orders : \A j \in DOMAIN orders :
        i # j => orders[i].flow_token # orders[j].flow_token

\* C17: when the gateway issues a distinct gateway token per successful
\* createPayment, no two distinct Orders ever share a non-null
\* download_token, and the mark-paid update for one gateway token puts its
\* download token on exactly one Order, or on none when it does not apply.
C17_DownloadTokenUnique ==
    GatewayTokensDistinct =>
       /\ \A i \in DOMAIN orders : \A j \in DOMAIN orders :
             (i # j /\ orders[i].download_token # Null)
                => orders[i].download_token # orders[j].download_token
       /\ \A m \in marks :
             Cardinality(RowsByDownloadToken(orders, m.download_token))
                = IF m.applied THEN 1 ELSE 0

\* two Orders with different gateway tokens are PAID, each with a download
\* token of its own
C17_Witness ==
    /\ Len(orders) = 2
    /\ GatewayTokensDistinct
    /\ orders[1].status = PAID /\ orders[2].status = PAID
    /\ orders[1].download_token # Null /\ orders[2].download_token # Null
    /\ orders[1].download_token # orders[2].download_token

\* the answer to a create-checkout is a rejection
Rejected(r) == r.kind = "create" /\ r.code # 200

\* C18: a create-checkout that is rejected (missing or malformed email,
\* unconfigured public base URL, failure of the gateway's createPayment)
\* persists no Order and leaves the store unchanged; when it is rejected
\* for its email or for the base URL, nothing was sent to the gateway.
C18_RejectedCreatePersistsNothing ==
    [][/\ \A raw \in EmailInputs :
             pay_create_validate(raw)
                => /\ orders' = orders
                   /\ gwIssued' = gwIssued
                   /\ (proc' = proc)
                         <=> (\/ ~is_valid_email(lower(strip(raw)))
                              \/ ~cfg.PUBLIC_BASE_URL)
                   /\ (proc' = proc)
                         => /\ Rejected(last')
                            /\ ~last'.gateway
                            /\ last'.body \in {"invalid_email",
                                               "no_public_base_url"}
       /\ \A p \in InFlight : \A o \in {"ok"} \cup GatewayFailures :
             (pay_create_post(p, o) /\ gwIssued' = gwIssued)
                => /\ orders' = orders
                   /\ proc' = Leave(p)
                   /\ Rejected(last')
       /\ Len(orders') # Len(orders)
             => last'.kind = "create" /\ last'.code = 200]_vars

\* the gateway has failed the createPayment of a request with a valid
\* email: the request is answered with an error and the store is empty
C18_Witness ==
    /\ last = GwResponse("create", Null, 0, Null, 400, "http_error")
    /\ orders = <<>>
    /\ uuid = 2
    /\ proc = EmptyBag

\* C19: every notification scheduled by confirmation processing carries a
\* download link whose token is the download_token persisted on its Order
\* at that moment, also when two callbacks for one gateway token both read
\* the Order before either has marked it paid.
C19_MailedLinkIsPersistedToken ==
    [][\A t \in BagToSet(notified') :
          CopiesIn(t, notified') > CopiesIn(t, notified)
             => \E i \in DOMAIN orders' :
                   /\ orders'[i].id = t.order_id
                   /\ orders'[i].download_token = t.link]_vars

\* C20: a confirmation callback for a token the gateway issued to a
\* createPayment of this service always finds the Order: it is never
\* answered order_not_found, not even between the gateway's answer to
\* createPayment and the insertion of the Order.
C20_IssuedTokenAlwaysFound ==
    (last.kind = "confirmation" /\ last.body = "warn_order_not_found")
       => last.token \notin 1..gwIssued

====
